---- MODULE Spec2Model ----
(***************************************************************************)
(* Model of the Evidentia Solana programs: cdp_stablecoin (rate            *)
(* configuration, deposit_bond_and_mint, accrue_interest) together with    *)
(* the SPL token mint_to call they make.                                   *)
(*                                                                         *)
(* u64 / i64 / u128 values are kept at their full width.  Since the model  *)
(* checker's integers are 32 bits wide, a machine integer is represented   *)
(* by its little-endian sequence of bytes (base 256) without leading zero  *)
(* bytes: <<>> is 0, <<232, 3>> is 1000.  An i64 is represented by its     *)
(* two's-complement bit pattern.                                           *)
(***************************************************************************)
EXTENDS Integers, Sequences, FiniteSets, TLC

\* ------------------------------------------------------------------------
\* Byte-sequence arithmetic (exact, unbounded naturals)
\* ------------------------------------------------------------------------
Base == 256

Limb(s, i) == IF i <= Len(s) THEN s[i] ELSE 0

RECURSIVE BNorm(_)
BNorm(s) ==
    IF Len(s) = 0 THEN <<>>
    ELSE IF s[Len(s)] = 0 THEN BNorm(SubSeq(s, 1, Len(s) - 1))
    ELSE s

RECURSIVE BNat(_)
BNat(n) == IF n = 0 THEN <<>> ELSE <<n % Base>> \o BNat(n \div Base)

\* bytes i.. of a + b + carry
RECURSIVE BAddFrom(_, _, _, _)
BAddFrom(a, b, i, carry) ==
    IF carry = 0 /\ i > Len(b) THEN SubSeq(a, i, Len(a))
    ELSE IF carry = 0 /\ i > Len(a) THEN SubSeq(b, i, Len(b))
    ELSE LET s == Limb(a, i) + Limb(b, i) + carry
         IN  <<s % Base>> \o BAddFrom(a, b, i + 1, s \div Base)

BAdd(a, b) == BNorm(BAddFrom(a, b, 1, 0))

RECURSIVE BSubFrom(_, _, _, _)
BSubFrom(a, b, i, borrow) ==
    IF i > Len(a) THEN <<>>
    ELSE LET d == Limb(a, i) - Limb(b, i) - borrow
         IN  <<(d + Base) % Base>> \o BSubFrom(a, b, i + 1, IF d < 0 THEN 1 ELSE 0)

\* a - b for a >= b
BSub(a, b) == BNorm(BSubFrom(a, b, 1, 0))

RECURSIVE BMulSmallFrom(_, _, _, _)
BMulSmallFrom(a, k, i, carry) ==
    IF i > Len(a)
    THEN (IF carry = 0 THEN <<>>
          ELSE <<carry % Base>> \o BMulSmallFrom(a, k, i, carry \div Base))
    ELSE LET p == a[i] * k + carry
         IN  <<p % Base>> \o BMulSmallFrom(a, k, i + 1, p \div Base)

\* a * k for a small multiplier k (k < 2^22)
BMulSmall(a, k) == BNorm(BMulSmallFrom(a, k, 1, 0))

\* a * (bytes i.. of b), taking two bytes of b at a time
RECURSIVE BMulFrom(_, _, _)
BMulFrom(a, b, i) ==
    IF i > Len(b) THEN <<>>
    ELSE BAddFrom(BMulSmallFrom(a, Limb(b, i) + Base * Limb(b, i + 1), 1, 0),
                  <<0, 0>> \o BMulFrom(a, b, i + 2), 1, 0)

BMul(a, b) ==
    IF Len(a) = 0 \/ Len(b) = 0 THEN <<>>
    ELSE IF Len(a) < Len(b) THEN BNorm(BMulFrom(b, a, 1))
    ELSE BNorm(BMulFrom(a, b, 1))

RECURSIVE BDivFrom(_, _, _, _)
BDivFrom(a, d, i, rem) ==
    IF i = 0 THEN <<>>
    ELSE LET cur == rem * Base + a[i]
         IN  BDivFrom(a, d, i - 1, cur % d) \o <<cur \div d>>

\* floor(a / d) for a small divisor d (d < 2^22)
BDivSmall(a, d) == BNorm(BDivFrom(a, d, Len(a), 0))

RECURSIVE BLessFrom(_, _, _)
BLessFrom(a, b, i) ==
    IF i = 0 THEN FALSE
    ELSE IF a[i] # b[i] THEN a[i] < b[i]
    ELSE BLessFrom(a, b, i - 1)

\* a < b, a <= b on normalised values
BLess(a, b) == IF Len(a) # Len(b) THEN Len(a) < Len(b) ELSE BLessFrom(a, b, Len(a))
BLeq(a, b) == a = b \/ BLess(a, b)

\* the low w bytes of a (a mod 2^(8w)), and whether a fits w bytes
BLow(a, w) == BNorm(SubSeq(a, 1, IF Len(a) < w THEN Len(a) ELSE w))
BFits(a, w) == Len(a) <= w

\* ------------------------------------------------------------------------
\* Machine integers
\* ------------------------------------------------------------------------
U64Bytes == 8
U128Bytes == 16

Zero == <<>>
U64Max == [i \in 1..U64Bytes |-> 255]
Pow2_64 == [i \in 1..(U64Bytes + 1) |-> IF i = U64Bytes + 1 THEN 1 ELSE 0]

\* Result of a fixed-width operation: the wrapped value and the overflow flag.
\* With overflow checks compiled in, an overflowing +, * panics; without
\* them the wrapped value is used.
Wrapped(exact, w) == [v |-> BLow(exact, w), ovf |-> ~BFits(exact, w)]

U64Add(a, b) == Wrapped(BAdd(a, b), U64Bytes)
U64Mul(a, b) == Wrapped(BMul(a, b), U64Bytes)
U128Mul(a, b) == Wrapped(BMul(a, b), U128Bytes)

\* i64 bit patterns
I64Negative(p) == Len(p) = U64Bytes /\ p[U64Bytes] >= 128

\* a - b on i64: two's-complement difference; overflows when the operands
\* have different signs and the sign of the result differs from a's.
I64Sub(a, b) ==
    LET d == BLow(BSub(BAdd(a, Pow2_64), b), U64Bytes)
    IN  [v |-> d,
         ovf |-> I64Negative(a) # I64Negative(b) /\ I64Negative(d) # I64Negative(a)]

\* `x as u128` for x: u64 (zero extension) and x: i64 (sign extension)
U64AsU128(x) == x
I64AsU128(p) ==
    IF I64Negative(p)
    THEN [i \in 1..U128Bytes |-> IF i <= U64Bytes THEN p[i] ELSE 255]
    ELSE p

\* `x as u64` for x: u128 (truncation, never panics)
U128AsU64(x) == BLow(x, U64Bytes)

\* ------------------------------------------------------------------------
\* Bounds of the model
\* ------------------------------------------------------------------------
\* number of deposits that issue credit / accruals that issue interest
MaxDeposits == 1
MaxAccruals == 1
\* the same two numbers where deposits, or accruals, are repeated
MaxRepeatDeposits == 2
MaxRepeatAccruals == 2

\* ------------------------------------------------------------------------
\* Program constants
\* ------------------------------------------------------------------------
BOND_UNIT_VALUE == 1000
MARGIN_PERCENT == 5
\* the divisor 10000 * 365 * 24 * 3600 of accrue_interest, by its factors
BPS_DENOMINATOR == 10000
HOURS_PER_YEAR == 365 * 24
SECONDS_PER_HOUR == 3600

\* ------------------------------------------------------------------------
\* Identities, accounts and input values
\* ------------------------------------------------------------------------
Users == {"admin", "alice", "bob"}
Depositors == {"alice", "bob"}
DefaultPubkey == "default"
VaultKeys == {"v1"}

\* token accounts of the collateral (bond) units and their holders
NftAccounts == {"nft_alice", "nft_bob"}
NftAccountOf(user) == IF user = "alice" THEN "nft_alice" ELSE "nft_bob"

\* token accounts of the stablecoin mint: "usd_alice", "usd_bob" and the
\* staking reward vault "reward"
RewardSink == "reward"
StableAccountOf(user) == IF user = "alice" THEN "usd_alice" ELSE "usd_bob"
\* the accounts a deposit names as user_stablecoin_account: any token account
\* of the stablecoin mint, the staking reward vault included
DepositDestinations == {"usd_alice", "usd_bob", RewardSink}
\* the accounts an accrue_interest transaction names as its reward vault
AccrueDestinations == {RewardSink, "usd_bob"}

\* the authority recorded in the stablecoin mint, and the authority accounts
\* a transaction may pass: the mint's authority as a signer, or not signing
MintAuthority == "mint_authority"
GoodAuthority == [key |-> MintAuthority, is_signer |-> TRUE]
AuthorityInputs == {GoodAuthority, [key |-> MintAuthority, is_signer |-> FALSE]}

\* smallest nft_count for which BOND_UNIT_VALUE * nft_count exceeds u64:
\* 18446744073709552
NValueOverflow == BAdd(BDivSmall(Pow2_64, BOND_UNIT_VALUE), BNat(1))

NftCounts == {Zero, BNat(1), NValueOverflow}
RateValues == {BNat(500), U64Max}

\* clock readings: a start and 400000000 s (about 12.7 years) later
T0 == BNat(1700000000)
T1 == BAdd(T0, BNat(400000000))
ClockValues == {T0, T1}

\* addresses of BondMetadata accounts
BondKeys == {"bond1", "bond2"}

InitialRate == BNat(500)
\* alice holds plenty of units, bob holds none
InitialNftAmount(a) == IF a = "nft_alice" THEN NValueOverflow ELSE Zero

\* ------------------------------------------------------------------------
\* State
\* ------------------------------------------------------------------------
VARIABLES
    config,           \* the Config account: admin, borrow_rate_bps
    vaults,           \* the Vault accounts by address
    nftAmount,        \* amount of each collateral token account
    bonds,            \* the BondMetadata accounts by address
    supply,           \* supply of the stablecoin mint
    overflow_checks,  \* whether the build panics on integer overflow
    tx,               \* the transaction just processed: its instruction, the
                      \* accounts and arguments it named, its status (error
                      \* kind or "Ok") and the amount its mint_to issued;
                      \* Ready once the status has been returned
    nDeposits,        \* number of deposits that issued credit so far
    nAccruals         \* number of accruals that issued interest so far

vars == <<config, vaults, nftAmount, bonds, supply, overflow_checks, tx, nDeposits, nAccruals>>

\* no transaction is being processed
Ready == [op |-> "none"]

\* an account that does not exist yet / as created by init_if_needed
NoVault ==
    [initialized |-> FALSE, owner |-> DefaultPubkey, nft_count |-> Zero,
     borrowed |-> Zero, last_borrow_timestamp |-> Zero]
NewVault == [NoVault EXCEPT !.initialized = TRUE]

\* a BondMetadata account that does not exist yet
NoBond ==
    [initialized |-> FALSE, mint |-> DefaultPubkey, authority |-> DefaultPubkey,
     isin |-> <<>>]

Init ==
    /\ config = [admin |-> "admin", borrow_rate_bps |-> InitialRate]
    /\ vaults = [v \in VaultKeys |-> NoVault]
    /\ nftAmount = [a \in NftAccounts |-> InitialNftAmount(a)]
    /\ bonds = [b \in BondKeys |-> NoBond]
    /\ supply = Zero
    /\ overflow_checks \in BOOLEAN
    /\ tx = Ready
    /\ nDeposits = 0
    /\ nAccruals = 0

\* ------------------------------------------------------------------------
\* SPL token mint_to, as called through the CPI
\* ------------------------------------------------------------------------
\* The CpiContext carries no signer seeds, so the authority must be the mint's
\* authority and must have signed the transaction; the supply (and with it
\* the destination amount, which never exceeds it) is added with an overflow
\* check.
TokenMintToAt(mint_supply, authority, to, amount) ==
    IF authority.key # MintAuthority THEN "OwnerMismatch"
    ELSE IF ~authority.is_signer THEN "MissingRequiredSignature"
    ELSE IF U64Add(mint_supply, amount).ovf THEN "TokenOverflow"
    ELSE "Ok"

\* mint_to on the stablecoin mint in the current state
TokenMintTo(authority, to, amount) == TokenMintToAt(supply, authority, to, amount)

\* ------------------------------------------------------------------------
\* set_borrow_rate
\* ------------------------------------------------------------------------
\* the config account declared without has_one = admin
HasOneAdminDropped(cfg, admin_key) == TRUE

\* #[account(mut, has_one = admin)] config
HasOneAdmin(cfg, admin_key) == cfg.admin = admin_key

\* Account validation of SetBorrowRate: `admin` is a Signer, then has_one.
SetBorrowRateAccounts(cfg, admin_key, is_signer) ==
    IF ~is_signer THEN "AccountNotSigner"
    ELSE IF ~HasOneAdmin(cfg, admin_key) THEN "ConstraintHasOne"
    ELSE "Ok"

\* ctx.accounts.config.borrow_rate_bps = new_rate_bps
SetRate(cfg, new_rate_bps) == [cfg EXCEPT !.borrow_rate_bps = new_rate_bps]

\* caller signs the transaction and passes admin_key as the `admin` account
set_borrow_rate(caller, admin_key, new_rate_bps) ==
    /\ tx = Ready
    /\ LET err == SetBorrowRateAccounts(config, admin_key, admin_key = caller)
       IN  /\ config' = IF err = "Ok" THEN SetRate(config, new_rate_bps) ELSE config
           /\ tx' = [op |-> "set_borrow_rate", caller |-> caller, admin_key |-> admin_key,
                     new_rate_bps |-> new_rate_bps, err |-> err]
    /\ UNCHANGED <<vaults, nftAmount, bonds, supply, overflow_checks, nDeposits, nAccruals>>

\* ------------------------------------------------------------------------
\* deposit_bond_and_mint
\* ------------------------------------------------------------------------
\* require!(user_nft_account.amount >= nft_count, NotEnoughNFTs)
EnoughNFTs(amount, nft_count) == BLeq(nft_count, amount)

\* total_value * (100 - MARGIN_PERCENT) / 100 on u64
Mintable(total_value) ==
    LET scaled == U64Mul(total_value, BNat(100 - MARGIN_PERCENT))
    IN  [v |-> BDivSmall(scaled.v, 100), ovf |-> scaled.ovf]

\* vault.owner = ctx.accounts.user.key()
DepositOwner(vault, user) == user

\* a handler that keeps the accrual clock of a vault that already carries debt
DepositHandlerKeepsClock(vault, user, nft_amount, nft_count, now, checks) ==
    IF ~EnoughNFTs(nft_amount, nft_count)
    THEN [err |-> "NotEnoughNFTs", vault |-> vault, mintable |-> Zero]
    ELSE LET count == U64Add(vault.nft_count, nft_count)
             total_value == U64Mul(BNat(BOND_UNIT_VALUE), nft_count)
             mintable == Mintable(total_value.v)
             borrowed == U64Add(vault.borrowed, mintable.v)
         IN  IF checks /\ (count.ovf \/ total_value.ovf \/ mintable.ovf \/ borrowed.ovf)
             THEN [err |-> "Panic", vault |-> vault, mintable |-> Zero]
             ELSE [err |-> "Ok",
                   vault |-> [vault EXCEPT !.nft_count = count.v,
                                           !.owner = DepositOwner(vault, user),
                                           !.borrowed = borrowed.v,
                                           !.last_borrow_timestamp =
                                               IF vault.borrowed = Zero THEN now ELSE @],
                   mintable |-> mintable.v]

\* The handler body on the loaded (or just created) vault; now is the
\* reading of Clock::get()?.unix_timestamp.
DepositHandler(vault, user, nft_amount, nft_count, now, checks) ==
    IF ~EnoughNFTs(nft_amount, nft_count)
    THEN [err |-> "NotEnoughNFTs", vault |-> vault, mintable |-> Zero]
    ELSE LET count == U64Add(vault.nft_count, nft_count)
             total_value == U64Mul(BNat(BOND_UNIT_VALUE), nft_count)
             mintable == Mintable(total_value.v)
             borrowed == U64Add(vault.borrowed, mintable.v)
         IN  IF checks /\ (count.ovf \/ total_value.ovf \/ mintable.ovf \/ borrowed.ovf)
             THEN [err |-> "Panic", vault |-> vault, mintable |-> Zero]
             ELSE [err |-> "Ok",
                   vault |-> [vault EXCEPT !.nft_count = count.v,
                                           !.owner = DepositOwner(vault, user),
                                           !.borrowed = borrowed.v,
                                           !.last_borrow_timestamp = now],
                   mintable |-> mintable.v]

\* #[account(init_if_needed, payer = user, space = 8 + 64)] vault
InitIfNeeded(vault) == IF vault.initialized THEN vault ELSE NewVault

\* Outcome of the instruction on given accounts (the vault accounts, the
\* collateral token accounts, the supply of the stablecoin mint) in a given
\* build: the handler, then the mint_to CPI; an error of either aborts the
\* whole transaction.
DepositOutcomeAt(vault_accounts, amounts, mint_supply, checks, user, v, user_nft_account, nft_count, user_stablecoin_account, authority, now) ==
    LET h == DepositHandler(InitIfNeeded(vault_accounts[v]), user,
                            amounts[user_nft_account], nft_count, now, checks)
        err == IF h.err # "Ok" THEN h.err
               ELSE TokenMintToAt(mint_supply, authority, user_stablecoin_account,
                                  h.mintable)
    IN  [err |-> err,
         vault |-> IF err = "Ok" THEN h.vault ELSE vault_accounts[v],
         minted |-> IF err = "Ok" THEN h.mintable ELSE Zero]

\* an outcome that keeps the handler's writes when the mint_to CPI fails
DepositOutcomePartialCommit(user, v, user_nft_account, nft_count, user_stablecoin_account, authority, now) ==
    LET h == DepositHandler(InitIfNeeded(vaults[v]), user, nftAmount[user_nft_account],
                            nft_count, now, overflow_checks)
        err == IF h.err # "Ok" THEN h.err
               ELSE TokenMintTo(authority, user_stablecoin_account, h.mintable)
    IN  [err |-> err,
         vault |-> IF h.err = "Ok" THEN h.vault ELSE vaults[v],
         minted |-> IF err = "Ok" THEN h.mintable ELSE Zero]

\* Outcome of the instruction in the current state: the handler, then the
\* mint_to CPI; an error of either aborts the whole transaction.
DepositOutcome(user, v, user_nft_account, nft_count, user_stablecoin_account, authority, now) ==
    DepositOutcomeAt(vaults, nftAmount, supply, overflow_checks, user, v,
                     user_nft_account, nft_count, user_stablecoin_account, authority, now)

\* the units moved out of user_nft_account by a deposit
CollateralMovedToCustody(amounts, user_nft_account, nft_count) ==
    [amounts EXCEPT ![user_nft_account] = BSub(@, nft_count)]

\* The collateral token accounts after a successful deposit: the handler
\* reads user_nft_account.amount and makes no transfer.
CollateralAfterDeposit(amounts, user_nft_account, nft_count) == amounts

\* user signs; vault, user_nft_account, user_stablecoin_account and
\* mint_authority are the accounts the transaction names.
deposit_bond_and_mint(user, v, user_nft_account, nft_count, user_stablecoin_account, authority, now) ==
    /\ tx = Ready
    /\ LET o == DepositOutcome(user, v, user_nft_account, nft_count,
                               user_stablecoin_account, authority, now)
       IN  /\ vaults' = [vaults EXCEPT ![v] = o.vault]
           /\ nftAmount' = IF o.err = "Ok"
                           THEN CollateralAfterDeposit(nftAmount, user_nft_account, nft_count)
                           ELSE nftAmount
           /\ supply' = U64Add(supply, o.minted).v
           /\ tx' = [op |-> "deposit", user |-> user, vault |-> v,
                     user_nft_account |-> user_nft_account, nft_count |-> nft_count,
                     to |-> user_stablecoin_account, authority |-> authority,
                     now |-> now, err |-> o.err, amount |-> o.minted]
           /\ nDeposits' = IF o.minted # Zero THEN nDeposits + 1 ELSE nDeposits
    /\ UNCHANGED <<config, bonds, overflow_checks, nAccruals>>

\* ------------------------------------------------------------------------
\* accrue_interest
\* ------------------------------------------------------------------------
\* x / (10000 * 365 * 24 * 3600) on u128; the divisor exceeds the model
\* checker's integers, so the quotient is taken factor by factor
\* (floor(floor(x / a) / b) = floor(x / (a * b))).
DivYearBps(x) ==
    BDivSmall(BDivSmall(BDivSmall(x, BPS_DENOMINATOR), HOURS_PER_YEAR), SECONDS_PER_HOUR)

\* interest that also charges the second of the last event
InterestInclusive(borrowed, borrow_rate_bps, elapsed) ==
    LET p1 == U128Mul(U64AsU128(borrowed), U64AsU128(borrow_rate_bps))
        p2 == U128Mul(p1.v, I64AsU128(U64Add(elapsed, BNat(1)).v))
    IN  [v |-> DivYearBps(p2.v), ovf |-> p1.ovf \/ p2.ovf]

\* ((borrowed as u128) * (borrow_rate_bps as u128) * (elapsed as u128)) / ...
Interest(borrowed, borrow_rate_bps, elapsed) ==
    LET p1 == U128Mul(U64AsU128(borrowed), U64AsU128(borrow_rate_bps))
        p2 == U128Mul(p1.v, I64AsU128(elapsed))
    IN  [v |-> DivYearBps(p2.v), ovf |-> p1.ovf \/ p2.ovf]

\* an accrual that also capitalises the interest into the debt
AccrueVaultCapitalised(vault, now, interest_u64) ==
    [vault EXCEPT !.last_borrow_timestamp = now,
                  !.borrowed = U64Add(vault.borrowed, interest_u64).v]

\* vault.last_borrow_timestamp = now
AccrueVault(vault, now, interest_u64) == [vault EXCEPT !.last_borrow_timestamp = now]

\* a handler that charges the rate the configuration started with
AccrueHandlerInitialRate(vault, cfg, now, checks) ==
    LET elapsed == I64Sub(now, vault.last_borrow_timestamp)
        interest == Interest(vault.borrowed, InitialRate, elapsed.v)
        interest_u64 == U128AsU64(interest.v)
    IN  IF checks /\ (elapsed.ovf \/ interest.ovf)
        THEN [err |-> "Panic", vault |-> vault, interest_u64 |-> Zero]
        ELSE [err |-> "Ok", vault |-> AccrueVault(vault, now, interest_u64),
              interest_u64 |-> interest_u64]

AccrueHandler(vault, cfg, now, checks) ==
    LET elapsed == I64Sub(now, vault.last_borrow_timestamp)
        interest == Interest(vault.borrowed, cfg.borrow_rate_bps, elapsed.v)
        interest_u64 == U128AsU64(interest.v)
    IN  IF checks /\ (elapsed.ovf \/ interest.ovf)
        THEN [err |-> "Panic", vault |-> vault, interest_u64 |-> Zero]
        ELSE [err |-> "Ok", vault |-> AccrueVault(vault, now, interest_u64),
              interest_u64 |-> interest_u64]

\* Outcome of the instruction on given accounts (the vault accounts, the
\* config, the supply of the stablecoin mint) in a given build: the vault
\* account must exist, then the handler, then the mint_to CPI.
AccrueOutcomeAt(vault_accounts, cfg, mint_supply, checks, v, staking_reward_vault, authority, now) ==
    LET h == AccrueHandler(vault_accounts[v], cfg, now, checks)
        err == IF ~vault_accounts[v].initialized THEN "AccountNotInitialized"
               ELSE IF h.err # "Ok" THEN h.err
               ELSE TokenMintToAt(mint_supply, authority, staking_reward_vault,
                                  h.interest_u64)
    IN  [err |-> err,
         vault |-> IF err = "Ok" THEN h.vault ELSE vault_accounts[v],
         minted |-> IF err = "Ok" THEN h.interest_u64 ELSE Zero]

\* Outcome of the instruction in the current state.
AccrueOutcome(v, staking_reward_vault, authority, now) ==
    AccrueOutcomeAt(vaults, config, supply, overflow_checks, v,
                    staking_reward_vault, authority, now)

\* anyone may submit it; vault, staking_reward_vault and mint_authority are
\* the accounts the transaction names.
accrue_interest(v, staking_reward_vault, authority, now) ==
    /\ tx = Ready
    /\ LET o == AccrueOutcome(v, staking_reward_vault, authority, now)
       IN  /\ vaults' = [vaults EXCEPT ![v] = o.vault]
           /\ supply' = U64Add(supply, o.minted).v
           /\ tx' = [op |-> "accrue", vault |-> v, to |-> staking_reward_vault,
                     authority |-> authority, now |-> now, err |-> o.err,
                     amount |-> o.minted]
           /\ nAccruals' = IF o.minted # Zero THEN nAccruals + 1 ELSE nAccruals
    /\ UNCHANGED <<config, nftAmount, bonds, overflow_checks, nDeposits>>

\* ------------------------------------------------------------------------
\* The runtime processes one transaction at a time: the status of a
\* transaction (Ok(()) or the error) is returned before the next one runs.
\* ------------------------------------------------------------------------
Return ==
    /\ tx # Ready
    /\ tx' = Ready
    /\ UNCHANGED <<config, vaults, nftAmount, bonds, supply, overflow_checks,
                   nDeposits, nAccruals>>

\* Any transaction with inputs from the sets above, as long as at most
\* MaxDeposits deposits have issued credit and at most MaxAccruals accruals
\* have issued interest.
Next ==
    \/ \E caller \in Users, admin_key \in Users, r \in RateValues :
           set_borrow_rate(caller, admin_key, r)
    \/ \E user \in Depositors, v \in VaultKeys, a \in NftAccounts, n \in NftCounts,
          dest \in DepositDestinations, auth \in AuthorityInputs, now \in ClockValues :
           /\ deposit_bond_and_mint(user, v, a, n, dest, auth, now)
           /\ nDeposits' <= MaxDeposits
    \/ \E v \in VaultKeys, to \in AccrueDestinations, auth \in AuthorityInputs,
          now \in ClockValues :
           /\ accrue_interest(v, to, auth, now)
           /\ nAccruals' <= MaxAccruals
    \/ Return

Spec == Init /\ [][Next]_vars

\* ------------------------------------------------------------------------
\* Repeated deposits on one vault: alice, holding one unit or u64::MAX units,
\* deposits with her own accounts; the admin moves the rate between 5% and
\* 10%; the mint authority signs.
\* ------------------------------------------------------------------------
RepeatCounts == {BNat(1), U64Max}
RepeatHoldings == {BNat(1), U64Max}
RepeatRates == {BNat(500), BNat(1000)}

InitRepeat ==
    /\ config = [admin |-> "admin", borrow_rate_bps |-> InitialRate]
    /\ vaults = [v \in VaultKeys |-> NoVault]
    /\ \E held \in RepeatHoldings :
           nftAmount = [a \in NftAccounts |-> IF a = "nft_alice" THEN held ELSE Zero]
    /\ bonds = [b \in BondKeys |-> NoBond]
    /\ supply = Zero
    /\ overflow_checks \in BOOLEAN
    /\ tx = Ready
    /\ nDeposits = 0
    /\ nAccruals = 0

NextRepeat ==
    \/ \E r \in RepeatRates : set_borrow_rate("admin", "admin", r)
    \/ \E v \in VaultKeys, n \in RepeatCounts, dest \in DepositDestinations,
          now \in ClockValues :
           /\ deposit_bond_and_mint("alice", v, NftAccountOf("alice"), n,
                                    dest, GoodAuthority, now)
           /\ nDeposits' <= MaxRepeatDeposits
    \/ \E v \in VaultKeys, now \in ClockValues :
           /\ accrue_interest(v, RewardSink, GoodAuthority, now)
           /\ nAccruals' <= MaxAccruals
    \/ Return

SpecRepeat == InitRepeat /\ [][NextRepeat]_vars

\* ------------------------------------------------------------------------
\* Repeated accruals on one vault under a changing rate: alice deposits one
\* unit with her own accounts; the admin moves the rate between 5% and 10%;
\* the mint authority signs; three clock readings.
\* ------------------------------------------------------------------------
\* one year (31536000 s) after T1
T2 == BAdd(T1, BNat(31536000))
RateClock == {T0, T1, T2}

NextRates ==
    \/ \E r \in RepeatRates : set_borrow_rate("admin", "admin", r)
    \/ \E v \in VaultKeys, dest \in DepositDestinations, now \in RateClock :
           /\ deposit_bond_and_mint("alice", v, NftAccountOf("alice"), BNat(1),
                                    dest, GoodAuthority, now)
           /\ nDeposits' <= MaxDeposits
    \/ \E v \in VaultKeys, now \in RateClock :
           /\ accrue_interest(v, RewardSink, GoodAuthority, now)
           /\ nAccruals' <= MaxRepeatAccruals
    \/ Return

SpecRates == Init /\ [][NextRates]_vars

\* ------------------------------------------------------------------------
\* Two vaults: alice and bob each hold one unit and deposit it into their own
\* vault; the admin moves the rate between 5% and FillRate; the mint
\* authority signs.
\* ------------------------------------------------------------------------
TwoVaultKeys == {"v1", "v2"}
VaultOf(user) == IF user = "alice" THEN "v1" ELSE "v2"
VaultCounts == {BNat(1)}

\* 15308855818644851989 as a u64 (little-endian bytes): at this rate a debt
\* of 950 accrues 2^64 - 1401 over T1 - T0, which fits u64 and leaves room
\* for 1400 more in the supply of the mint
FillRate == <<21, 141, 255, 219, 65, 251, 115, 212>>
VaultRates == {BNat(500), FillRate}

InitVaults ==
    /\ config = [admin |-> "admin", borrow_rate_bps |-> InitialRate]
    /\ vaults = [v \in TwoVaultKeys |-> NoVault]
    /\ nftAmount = [a \in NftAccounts |-> BNat(1)]
    /\ bonds = [b \in BondKeys |-> NoBond]
    /\ supply = Zero
    /\ overflow_checks \in BOOLEAN
    /\ tx = Ready
    /\ nDeposits = 0
    /\ nAccruals = 0

NextVaults ==
    \/ \E r \in VaultRates : set_borrow_rate("admin", "admin", r)
    \/ \E user \in Depositors, n \in VaultCounts, dest \in DepositDestinations,
          now \in ClockValues :
           /\ deposit_bond_and_mint(user, VaultOf(user), NftAccountOf(user), n,
                                    dest, GoodAuthority, now)
           /\ nDeposits' <= MaxRepeatDeposits
    \/ \E v \in TwoVaultKeys, now \in ClockValues :
           /\ accrue_interest(v, RewardSink, GoodAuthority, now)
           /\ nAccruals' <= MaxAccruals
    \/ Return

SpecVaults == InitVaults /\ [][NextVaults]_vars

\* ------------------------------------------------------------------------
\* bond_tokenization: mint_bond
\* ------------------------------------------------------------------------
\* an ISIN as the bytes of the String argument
Isin(n) == [i \in 1..n |-> "A"]
IsinInputs == {Isin(8), Isin(9), Isin(12), Isin(13)}

\* the mint of the collateral units
BondMint == "bond_mint"

\* require!(isin.len() <= 12, ErrorCode::InvalidISINLength)
ISIN_MAX_LEN == 12
ValidISINLength(isin) == Len(isin) <= ISIN_MAX_LEN

\* #[account(init, payer = authority, space = 8 + 32 + 32 + 12)]
BondSpace == 8 + 32 + 32 + 12

\* bytes of a serialized BondMetadata: the 8-byte discriminator, two
\* Pubkeys, and the String as a 4-byte length followed by its bytes
BondSize(isin) == 8 + 32 + 32 + 4 + Len(isin)

\* supply of the collateral mint: the total of its token accounts
RECURSIVE AmountTotal(_, _)
AmountTotal(amounts, accounts) ==
    IF accounts = {} THEN Zero
    ELSE LET a == CHOOSE x \in accounts : TRUE
         IN  BAdd(amounts[a], AmountTotal(amounts, accounts \ {a}))

\* mint_to of the collateral mint through the CPI, without signer seeds
BondMintTo(authority, to, amount) ==
    IF authority.key # MintAuthority THEN "OwnerMismatch"
    ELSE IF ~authority.is_signer THEN "MissingRequiredSignature"
    ELSE IF U64Add(AmountTotal(nftAmount, NftAccounts), amount).ovf THEN "TokenOverflow"
    ELSE "Ok"

\* Outcome of the instruction in the current state: init of bond_metadata,
\* the handler with its mint_to CPI, then the write-back of the record into
\* the account's space when the instruction exits.
MintBondOutcome(authority, b, isin, token_account, mint_authority) ==
    LET cpi == BondMintTo(mint_authority, token_account, BNat(1))
        err == IF bonds[b].initialized THEN "AccountAlreadyInUse"
               ELSE IF ~ValidISINLength(isin) THEN "InvalidISINLength"
               ELSE IF cpi # "Ok" THEN cpi
               ELSE IF BondSize(isin) > BondSpace THEN "AccountDidNotSerialize"
               ELSE "Ok"
    IN  [err |-> err,
         bond |-> IF err = "Ok"
                  THEN [initialized |-> TRUE, mint |-> BondMint,
                        authority |-> authority, isin |-> isin]
                  ELSE bonds[b],
         minted |-> IF err = "Ok" THEN BNat(1) ELSE Zero]

\* authority signs and pays; bond_metadata (b), token_account and
\* mint_authority are the accounts the transaction names.
mint_bond(authority, b, isin, token_account, mint_authority) ==
    /\ tx = Ready
    /\ LET o == MintBondOutcome(authority, b, isin, token_account, mint_authority)
       IN  /\ bonds' = [bonds EXCEPT ![b] = o.bond]
           /\ nftAmount' = [nftAmount EXCEPT ![token_account] = U64Add(@, o.minted).v]
           /\ tx' = [op |-> "mint_bond", authority |-> authority, bond_metadata |-> b,
                     isin |-> isin, token_account |-> token_account,
                     mint_authority |-> mint_authority, err |-> o.err,
                     amount |-> o.minted]
    /\ UNCHANGED <<config, vaults, supply, overflow_checks, nDeposits, nAccruals>>

\* Any mint_bond transaction: every BondMetadata account is created at most
\* once, which bounds the bonds that can be issued.
NextBond ==
    \/ \E authority \in Depositors, b \in BondKeys, isin \in IsinInputs,
          to \in NftAccounts, auth \in AuthorityInputs :
           mint_bond(authority, b, isin, to, auth)
    \/ Return

SpecBond == Init /\ [][NextBond]_vars

\* ------------------------------------------------------------------------
\* Exact (unbounded) values the specification states
\* ------------------------------------------------------------------------
\* floor(1000 * unitCount * 95 / 100)
ExactMintable(unitCount) == BDivSmall(BMulSmall(BMulSmall(unitCount, 1000), 95), 100)

\* borrowed * borrowRateBps * elapsed and its quotient by 315360000000
ExactProduct(borrowed, rateBps, elapsed) == BMul(BMul(borrowed, rateBps), elapsed)
ExactInterest(borrowed, rateBps, elapsed) ==
    BDivSmall(BDivSmall(BDivSmall(ExactProduct(borrowed, rateBps, elapsed), 10000), 8760), 3600)

\* the error kinds of the code that stand for the specification's kinds
Unauthorized(err) == err \in {"AccountNotSigner", "ConstraintHasOne"}
InsufficientCollateral(err) == err = "NotEnoughNFTs"
ArithmeticOverflow(err) == err = "Panic"
InvalidIdentifierLength(err) == err = "InvalidISINLength"

\* the step processes a deposit / an accrual / a rate change
IsDeposit == tx = Ready /\ tx'.op = "deposit"
IsAccrue == tx = Ready /\ tx'.op = "accrue"
IsSetRate == tx = Ready /\ tx'.op = "set_borrow_rate"
IsMintBond == tx = Ready /\ tx'.op = "mint_bond"

\* ------------------------------------------------------------------------
\* C1: a successful deposit of unitCount > 0 units held by the caller, made
\* with the caller's own accounts, raises vault.borrowed by exactly
\* floor(1000 * unitCount * 95 / 100) and vault.collateralUnits by exactly
\* unitCount, whatever the vault held before, and issues that amount.
\* ------------------------------------------------------------------------
C1_DepositIssuesExactCredit ==
    [][(/\ IsDeposit
        /\ tx'.err = "Ok"
        /\ tx'.nft_count # Zero
        /\ tx'.user_nft_account = NftAccountOf(tx'.user)
        /\ tx'.to = StableAccountOf(tx'.user))
       => /\ vaults'[tx'.vault].borrowed =
                 BAdd(vaults[tx'.vault].borrowed, ExactMintable(tx'.nft_count))
          /\ vaults'[tx'.vault].nft_count = BAdd(vaults[tx'.vault].nft_count, tx'.nft_count)
          /\ tx'.amount = ExactMintable(tx'.nft_count)]_vars

\* ------------------------------------------------------------------------
\* C2: set_borrow_rate by an identity other than config.admin fails with
\* Unauthorized and leaves the configuration unchanged; the rate changes only
\* by an instruction the admin submitted, which sets it to the submitted value.
\* ------------------------------------------------------------------------
C2_OnlyAdminSetsRate ==
    [][/\ IsSetRate
          => IF tx'.caller = config.admin /\ tx'.admin_key = tx'.caller
             THEN tx'.err = "Ok" /\ config' = [config EXCEPT !.borrow_rate_bps = tx'.new_rate_bps]
             ELSE Unauthorized(tx'.err) /\ config' = config
       /\ config' # config
          => IsSetRate /\ tx'.caller = config.admin]_vars

C2_Witness ==
    /\ tx.op = "set_borrow_rate"
    /\ tx.caller = "bob"
    /\ tx.admin_key = "bob"
    /\ tx.err = "ConstraintHasOne"
    /\ config.borrow_rate_bps = U64Max

\* ------------------------------------------------------------------------
\* C3: for elapsed = now - lastEventTimestamp >= 0 a successful accrueInterest
\* issues exactly floor(borrowed * borrowRateBps * elapsed / 315360000000).
\* ------------------------------------------------------------------------
C3_AccrualIssuesExactInterest ==
    [][(/\ IsAccrue
        /\ tx'.err = "Ok"
        /\ BLeq(vaults[tx'.vault].last_borrow_timestamp, tx'.now))
       => tx'.amount =
              ExactInterest(vaults[tx'.vault].borrowed, config.borrow_rate_bps,
                            BSub(tx'.now, vaults[tx'.vault].last_borrow_timestamp))]_vars

\* ------------------------------------------------------------------------
\* C4: accrueInterest changes only vault.lastEventTimestamp: borrowed,
\* collateralUnits and owner of the vault, and the rate configuration, are the
\* same after the call as before it.
\* ------------------------------------------------------------------------
C4_AccrualFrame ==
    [][IsAccrue
       => /\ vaults'[tx'.vault].borrowed = vaults[tx'.vault].borrowed
          /\ vaults'[tx'.vault].nft_count = vaults[tx'.vault].nft_count
          /\ vaults'[tx'.vault].owner = vaults[tx'.vault].owner
          /\ vaults'[tx'.vault].initialized = vaults[tx'.vault].initialized
          /\ \A w \in VaultKeys \ {tx'.vault} : vaults'[w] = vaults[w]
          /\ config' = config]_vars

C4_Witness ==
    /\ tx.op = "accrue"
    /\ tx.err = "Ok"
    /\ tx.now = T1
    /\ tx.amount = BNat(602)
    /\ vaults["v1"].borrowed = BNat(950)
    /\ vaults["v1"].last_borrow_timestamp = T1

\* ------------------------------------------------------------------------
\* C5: an accrueInterest at the clock reading the vault's last event already
\* carries (a second call back-to-back) issues interest 0 and does not fail,
\* and every successful accrual leaves lastEventTimestamp at the clock reading,
\* so that the next accrual charges only the time after it.
\* ------------------------------------------------------------------------
C5_BackToBackAccrual ==
    [][IsAccrue
       => /\ (/\ vaults[tx'.vault].initialized
              /\ tx'.now = vaults[tx'.vault].last_borrow_timestamp
              /\ tx'.authority = GoodAuthority)
             => tx'.err = "Ok" /\ tx'.amount = Zero
          /\ tx'.err = "Ok" => vaults'[tx'.vault].last_borrow_timestamp = tx'.now]_vars

C5_Witness ==
    /\ overflow_checks
    /\ nAccruals = 1
    /\ tx.op = "accrue"
    /\ tx.err = "Ok"
    /\ tx.amount = Zero
    /\ tx.now = T1
    /\ vaults["v1"].borrowed = BNat(950)
    /\ vaults["v1"].last_borrow_timestamp = T1

\* ------------------------------------------------------------------------
\* C6: whenever borrowed * borrowRateBps * elapsed (elapsed >= 0) exceeds the
\* 128-bit intermediate, or the interest does not fit 64 bits, an
\* accrueInterest that the mint authority signed fails with ArithmeticOverflow,
\* issues nothing and leaves the vault unchanged.
\* ------------------------------------------------------------------------
C6_AccrualOverflowFails ==
    [][(/\ IsAccrue
        /\ vaults[tx'.vault].initialized
        /\ tx'.authority = GoodAuthority
        /\ BLeq(vaults[tx'.vault].last_borrow_timestamp, tx'.now)
        /\ LET elapsed == BSub(tx'.now, vaults[tx'.vault].last_borrow_timestamp)
               borrowed == vaults[tx'.vault].borrowed
           IN  \/ ~BFits(ExactProduct(borrowed, config.borrow_rate_bps, elapsed), U128Bytes)
               \/ ~BFits(ExactInterest(borrowed, config.borrow_rate_bps, elapsed), U64Bytes))
       => /\ ArithmeticOverflow(tx'.err)
          /\ tx'.amount = Zero
          /\ vaults' = vaults]_vars

\* ------------------------------------------------------------------------
\* C7: a deposit whose preconditions hold either raises borrowed by exactly
\* 950 * unitCount and collateralUnits by exactly unitCount, or fails with
\* ArithmeticOverflow leaving the vault unchanged and issuing nothing.
\* ------------------------------------------------------------------------
C7_DepositNeverWraps ==
    [][(/\ IsDeposit
        /\ EnoughNFTs(nftAmount[tx'.user_nft_account], tx'.nft_count)
        /\ tx'.authority = GoodAuthority)
       => \/ /\ tx'.err = "Ok"
             /\ vaults'[tx'.vault].borrowed =
                    BAdd(vaults[tx'.vault].borrowed, BMulSmall(tx'.nft_count, 950))
             /\ vaults'[tx'.vault].nft_count =
                    BAdd(vaults[tx'.vault].nft_count, tx'.nft_count)
             /\ tx'.amount = BMulSmall(tx'.nft_count, 950)
          \/ /\ ArithmeticOverflow(tx'.err)
             /\ tx'.amount = Zero
             /\ vaults' = vaults]_vars

\* ------------------------------------------------------------------------
\* C8: an accrueInterest whose clock reading is earlier than the vault's
\* lastEventTimestamp fails, issues nothing and leaves the vault unchanged,
\* so that lastEventTimestamp never decreases.
\* ------------------------------------------------------------------------
C8_ClockOrderingEnforced ==
    [][(/\ IsAccrue
        /\ vaults[tx'.vault].initialized
        /\ BLess(tx'.now, vaults[tx'.vault].last_borrow_timestamp))
       => /\ tx'.err # "Ok"
          /\ tx'.amount = Zero
          /\ vaults' = vaults]_vars

\* ------------------------------------------------------------------------
\* C9: a deposit (signed by the mint authority) by a caller who holds fewer
\* than unitCount units in their own balance fails with InsufficientCollateral,
\* whatever balance the transaction points at, leaving the vault unchanged and
\* issuing nothing.
\* ------------------------------------------------------------------------
C9_CallerMustHoldCollateral ==
    [][(/\ IsDeposit
        /\ tx'.authority = GoodAuthority
        /\ BLess(nftAmount[NftAccountOf(tx'.user)], tx'.nft_count))
       => /\ InsufficientCollateral(tx'.err)
          /\ tx'.amount = Zero
          /\ vaults' = vaults]_vars

\* ------------------------------------------------------------------------
\* C10: once a vault has been created by its owner, no deposit by another
\* caller succeeds against it, and vault.owner never changes.
\* ------------------------------------------------------------------------
C10_OnlyOwnerDeposits ==
    [][(/\ IsDeposit
        /\ vaults[tx'.vault].initialized
        /\ tx'.user # vaults[tx'.vault].owner)
       => /\ tx'.err # "Ok"
          /\ vaults' = vaults]_vars

\* the step processes any instruction
IsInstruction == tx = Ready /\ tx'.op # "none"

\* ------------------------------------------------------------------------
\* C11: no operation partially commits: when an instruction fails (in its
\* checks, its arithmetic or the mint_to call), the vault fields, the
\* configuration and the issued supply are exactly as before the call and no
\* credit has been issued, although the handler writes the vault fields
\* before it calls mint_to.
\* ------------------------------------------------------------------------
C11_NoPartialCommit ==
    [][(IsInstruction /\ tx'.err # "Ok")
       => /\ vaults' = vaults
          /\ config' = config
          /\ supply' = supply
          /\ nftAmount' = nftAmount
          /\ tx'.op \in {"deposit", "accrue"} => tx'.amount = Zero]_vars

\* a deposit of one unit passed the handler and failed in mint_to: the vault
\* it would have created does not exist
C11_Witness ==
    /\ tx.op = "deposit"
    /\ tx.err = "MissingRequiredSignature"
    /\ tx.nft_count = BNat(1)
    /\ tx.user_nft_account = "nft_alice"
    /\ ~vaults[tx.vault].initialized
    /\ supply = Zero

\* ------------------------------------------------------------------------
\* C13: accrueInterest issues the interest only to the one fixed reward-sink
\* balance, never to a destination chosen by the caller.
\* ------------------------------------------------------------------------
C13_InterestOnlyToSink ==
    [][(IsAccrue /\ tx'.err = "Ok" /\ tx'.amount # Zero) => tx'.to = RewardSink]_vars

\* ------------------------------------------------------------------------
\* C16: a deposit with unitCount = 0 does not succeed and leaves the vault
\* unchanged: it neither rewrites vault.owner nor resets lastEventTimestamp.
\* ------------------------------------------------------------------------
C16_ZeroCountRejected ==
    [][(IsDeposit /\ tx'.nft_count = Zero)
       => /\ tx'.err # "Ok"
          /\ vaults' = vaults]_vars

\* ------------------------------------------------------------------------
\* C12: in every state reachable from a lazily created vault,
\* borrowed <= 1000 * collateralUnits * 95 / 100.
\* ------------------------------------------------------------------------
C12_DebtWithinCollateralValue ==
    \A v \in DOMAIN vaults :
        BLeq(vaults[v].borrowed, ExactMintable(vaults[v].nft_count))

\* the interval an accrual charges, where the clock has not gone backwards
Elapsed(v, now) == BSub(now, vaults[v].last_borrow_timestamp)

\* ------------------------------------------------------------------------
\* C17: no rate history is kept: an accrual charges the whole interval since
\* the vault's last event at the rate the configuration holds when it runs,
\* interest = floor(borrowed * rate * elapsed / 315360000000), whatever the
\* rate was before and whenever it changed (stated where that interest fits
\* the 64-bit amount that is issued).
\* ------------------------------------------------------------------------
C17_CurrentRateOnly ==
    [][(/\ IsAccrue
        /\ tx'.err = "Ok"
        /\ BLeq(vaults[tx'.vault].last_borrow_timestamp, tx'.now)
        /\ BFits(ExactInterest(vaults[tx'.vault].borrowed, config.borrow_rate_bps,
                               Elapsed(tx'.vault, tx'.now)), U64Bytes))
       => tx'.amount =
              ExactInterest(vaults[tx'.vault].borrowed, config.borrow_rate_bps,
                            Elapsed(tx'.vault, tx'.now))]_vars

\* debt 950 from T0; accrual at T1 under 5% issued 602; the rate then went
\* to 10% and the accrual at T2 issued 95 for the year since T1
C17_Witness ==
    /\ tx.op = "accrue"
    /\ tx.err = "Ok"
    /\ tx.now = T2
    /\ tx.amount = BNat(95)
    /\ config.borrow_rate_bps = BNat(1000)
    /\ nAccruals = 2
    /\ supply = BNat(950 + 602 + 95)

\* ------------------------------------------------------------------------
\* C18: a deposit into a vault that already carries debt sets
\* lastEventTimestamp to the current time and issues no interest: all it
\* issues, to whichever account the caller names, is the credit computed from
\* the unit count alone, whatever the rate and the time since the last event,
\* and that amount is recorded as debt; an accrual charges only the interval
\* since that last event, so the interval before the deposit is never issued
\* (the accrual's amount stated where it fits the 64-bit amount that is
\* issued).
\* ------------------------------------------------------------------------
DepositCredit(nft_count) == Mintable(U64Mul(BNat(BOND_UNIT_VALUE), nft_count).v).v

C18_DepositResetsClockWithoutInterest ==
    [][/\ (IsDeposit /\ tx'.err = "Ok" /\ vaults[tx'.vault].borrowed # Zero)
          => /\ vaults'[tx'.vault].last_borrow_timestamp = tx'.now
             /\ tx'.amount = DepositCredit(tx'.nft_count)
             /\ supply' = BAdd(supply, tx'.amount)
             /\ vaults'[tx'.vault].borrowed =
                    BLow(BAdd(vaults[tx'.vault].borrowed, tx'.amount), U64Bytes)
       /\ (/\ IsAccrue
           /\ tx'.err = "Ok"
           /\ BLeq(vaults[tx'.vault].last_borrow_timestamp, tx'.now)
           /\ BFits(ExactInterest(vaults[tx'.vault].borrowed, config.borrow_rate_bps,
                                  Elapsed(tx'.vault, tx'.now)), U64Bytes))
          => /\ tx'.amount =
                    ExactInterest(vaults[tx'.vault].borrowed, config.borrow_rate_bps,
                                  Elapsed(tx'.vault, tx'.now))
             /\ supply' = BAdd(supply, tx'.amount)]_vars

\* deposits at T0 and at T1, then an accrual at T1: nothing was ever issued
\* for the interval T0..T1
C18_Witness ==
    /\ tx.op = "accrue"
    /\ tx.err = "Ok"
    /\ tx.now = T1
    /\ tx.amount = Zero
    /\ nDeposits = 2
    /\ nAccruals = 0
    /\ vaults["v1"].borrowed = BNat(1900)
    /\ vaults["v1"].last_borrow_timestamp = T1
    /\ supply = BNat(1900)

\* ------------------------------------------------------------------------
\* C19: a deposit only reads the caller's collateral balance: it never
\* changes any collateral balance, and it is refused for lack of collateral
\* exactly when the balance read is below unitCount, whatever the vault
\* already holds; so vault.collateralUnits is not bounded by the units held.
\* ------------------------------------------------------------------------
C19_CollateralOnlyRead ==
    [][IsDeposit
       => /\ nftAmount' = nftAmount
          /\ InsufficientCollateral(tx'.err)
                <=> ~EnoughNFTs(nftAmount[tx'.user_nft_account], tx'.nft_count)]_vars

\* alice holds one unit and the vault records two
C19_Witness ==
    /\ tx.op = "deposit"
    /\ tx.err = "Ok"
    /\ nftAmount["nft_alice"] = BNat(1)
    /\ vaults["v1"].nft_count = BNat(2)
    /\ vaults["v1"].borrowed = BNat(1900)

\* ------------------------------------------------------------------------
\* C20: every successful deposit adds exactly the credit it issues to
\* vault.borrowed, no other operation changes borrowed, and the borrowed and
\* collateralUnits of a vault never decrease.
\* ------------------------------------------------------------------------
C20_DebtIsCreditIssued ==
    [][/\ \A v \in DOMAIN vaults :
             /\ BLeq(vaults[v].borrowed, vaults'[v].borrowed)
             /\ BLeq(vaults[v].nft_count, vaults'[v].nft_count)
       /\ (IsDeposit /\ tx'.err = "Ok")
          => vaults'[tx'.vault].borrowed =
                 BAdd(vaults[tx'.vault].borrowed, tx'.amount)
       /\ ~IsDeposit
          => \A v \in DOMAIN vaults : vaults'[v].borrowed = vaults[v].borrowed]_vars

\* ------------------------------------------------------------------------
\* C15: registerAndIssue (on a fresh record account, signed by the mint
\* authority) fails with InvalidIdentifierLength exactly when the identifier
\* is longer than 12 characters, creating no record and issuing nothing; for
\* every identifier of at most 12 characters it succeeds, creates a record
\* bound to that identifier and issues exactly one collateral unit.
\* ------------------------------------------------------------------------
C15_IdentifierLength ==
    [][(/\ IsMintBond
        /\ ~bonds[tx'.bond_metadata].initialized
        /\ tx'.mint_authority = GoodAuthority)
       => /\ InvalidIdentifierLength(tx'.err) <=> Len(tx'.isin) > 12
          /\ Len(tx'.isin) > 12 => bonds' = bonds /\ nftAmount' = nftAmount
          /\ Len(tx'.isin) <= 12
             => /\ tx'.err = "Ok"
                /\ bonds'[tx'.bond_metadata].initialized
                /\ bonds'[tx'.bond_metadata].isin = tx'.isin
                /\ tx'.amount = BNat(1)
                /\ nftAmount'[tx'.token_account] =
                       BAdd(nftAmount[tx'.token_account], BNat(1))]_vars

\* ------------------------------------------------------------------------
\* C14: operations on distinct vaults never interfere.  A deposit or accrual
\* on one vault leaves every field of every other vault unchanged, and it
\* leaves unchanged the outcome (status, resulting vault, amount issued) of
\* every deposit and accrual on every other vault, for every clock reading
\* and at the same rate; so, by induction on the interleaving, each vault ends
\* in the state it reaches when its own operations run alone in their order.
\* ------------------------------------------------------------------------
IsVaultOp == tx = Ready /\ tx'.op \in {"deposit", "accrue"}
OtherVaults == DOMAIN vaults \ {tx'.vault}

\* the step leaves the fields of the other vaults unchanged
OtherVaultsUnchanged == \A b \in OtherVaults : vaults'[b] = vaults[b]

\* outcomes on vault a before the step and after it
DepositBefore(user, a, n, now) ==
    DepositOutcomeAt(vaults, nftAmount, supply, overflow_checks, user, a,
                     NftAccountOf(user), n, StableAccountOf(user), GoodAuthority, now)
DepositAfter(user, a, n, now) ==
    DepositOutcomeAt(vaults', nftAmount', supply', overflow_checks', user, a,
                     NftAccountOf(user), n, StableAccountOf(user), GoodAuthority, now)
AccrueBefore(a, now) ==
    AccrueOutcomeAt(vaults, config, supply, overflow_checks, a, RewardSink,
                    GoodAuthority, now)
AccrueAfter(a, now) ==
    AccrueOutcomeAt(vaults', config', supply', overflow_checks', a, RewardSink,
                    GoodAuthority, now)

\* the claim as stated: every outcome on another vault is the same after
\* the step as before it
C14_VaultsIndependent ==
    [][IsVaultOp =>
          /\ OtherVaultsUnchanged
          /\ \A a \in OtherVaults, now \in ClockValues :
                 /\ \A user \in Depositors, n \in VaultCounts :
                        DepositAfter(user, a, n, now) = DepositBefore(user, a, n, now)
                 /\ AccrueAfter(a, now) = AccrueBefore(a, now)]_vars

====
